---- MODULE Spec2Model ----
(***************************************************************************)
(* A model of the retrieval-augmented-generation demo: VectorDB            *)
(* (src/vector_db.py) and RAGPipeline (src/rag_pipeline.py).               *)
(*                                                                         *)
(* Strings that the code inspects character-wise (texts, JSON strings,     *)
(* error messages, the context block) are sequences of tokens; the empty   *)
(* string is <<>>.  Optional dictionary keys are sequences of length 0     *)
(* (key absent) or 1 (key present, holding the value).                     *)
(***************************************************************************)
EXTENDS Integers, Sequences, FiniteSets, TLC

VARIABLES index, model, catalog, last, calls

vars == <<index, model, catalog, last, calls>>

\* ------------------------------------------------------------------ bounds
MaxDocs == 2
MaxLongBatches == 1
MaxTopK == 2
MaxCalls == 1
MaxIds == 3

\* -------------------------------------------------------- program constants
batch_size == 20

\* ------------------------------------------------------------ Python idioms
\* dict.get(key, default) on an optional key
Get(field, default) == IF field = <<>> THEN default ELSE field[1]

Min(a, b) == IF a < b THEN a ELSE b

RECURSIVE Flatten(_)
Flatten(ss) == IF ss = <<>> THEN <<>> ELSE Head(ss) \o Flatten(Tail(ss))

Reverse(s) == [i \in 1..Len(s) |-> s[Len(s) + 1 - i]]

\* ------------------------------------------------------------------- JSON
\* A JSON value: kind "map" with body <<k1, v1, k2, v2, ...>>, kind "str"
\* with body the string's tokens, kind "num" with body <<digits>>.
EmptyMap == [kind |-> "map", body |-> <<>>]

RECURSIVE DumpPairs(_)
DumpPairs(b) ==
    IF Len(b) < 2 THEN <<>>
    ELSE <<b[1], ":", b[2]>>
         \o (IF Len(b) > 2 THEN <<",">> ELSE <<>>)
         \o DumpPairs(SubSeq(b, 3, Len(b)))

\* json.dumps of a map: the string  { k1 : v1 , k2 : v2 }
json_dumps(v) == [kind |-> "str", body |-> <<"{">> \o DumpPairs(v.body) \o <<"}">>]

Punct == {"{", "}", ":", ","}

Digits == {"5", "1905", "1920"}

\* the tokens between the braces form  k : v ( , k : v )*
RECURSIVE WellFormedPairs(_)
WellFormedPairs(t) ==
    \/ /\ Len(t) = 3
       /\ t[1] \notin Punct /\ t[2] = ":" /\ t[3] \notin Punct
    \/ /\ Len(t) > 4
       /\ t[1] \notin Punct /\ t[2] = ":" /\ t[3] \notin Punct /\ t[4] = ","
       /\ WellFormedPairs(SubSeq(t, 5, Len(t)))

RECURSIVE ParsePairs(_)
ParsePairs(t) ==
    IF Len(t) < 3 THEN <<>>
    ELSE <<t[1], t[3]>> \o (IF Len(t) > 4 THEN ParsePairs(SubSeq(t, 5, Len(t))) ELSE <<>>)

\* json.loads of a string: [ok |-> FALSE] stands for json.JSONDecodeError
json_loads(s) ==
    LET t == s.body
        inner == SubSeq(t, 2, Len(t) - 1)
    IN  IF Len(t) >= 2 /\ t[1] = "{" /\ t[Len(t)] = "}"
           /\ (inner = <<>> \/ WellFormedPairs(inner))
        THEN [ok |-> TRUE, value |-> [kind |-> "map", body |-> ParsePairs(inner)]]
        ELSE IF Len(t) = 1 /\ t[1] \in Digits
        THEN [ok |-> TRUE, value |-> [kind |-> "num", body |-> t]]
        ELSE [ok |-> FALSE, value |-> EmptyMap]

\* value of key k in a parsed map, as an optional
RECURSIVE MapGet(_, _)
MapGet(b, k) ==
    IF Len(b) < 2 THEN <<>>
    ELSE IF b[1] = k THEN <<b[2]>>
    ELSE MapGet(SubSeq(b, 3, Len(b)), k)

\* -------------------------------------------------------------- embedding
TokenCode(tok) ==
    CASE tok = "relativity" -> 7
      [] tok = "quantum" -> 3
      [] tok = "mechanics" -> 2
      [] tok = " " -> 1
      [] OTHER -> 5

RECURSIVE SumCodes(_)
SumCodes(text) == IF text = <<>> THEN 0 ELSE TokenCode(Head(text)) + SumCodes(Tail(text))

\* SentenceTransformer.encode: a deterministic function of the text
embed_text(text) == <<SumCodes(text), Len(text)>>

\* similarity of two embeddings (higher is closer)
Score(q, v) == 0 - ((q[1] - v[1]) * (q[1] - v[1]) + (q[2] - v[2]) * (q[2] - v[2]))

\* -------------------------------------------------------------- documents
\* str(doc.get("id", f"doc_{i}"))
doc_id(doc, i) == IF doc.id = <<>> THEN "doc_" \o ToString(i) ELSE doc.id[1].v

\* the metadata attached to a vector (lines 80-84)
vector_metadata(doc) ==
    [text |-> Get(doc.text, <<>>),
     source |-> Get(doc.source, "unknown"),
     metadata |-> json_dumps(Get(doc.metadata, EmptyMap))]

\* the loop body without the empty-text test of lines 75-77
prepare_one_noskip(doc, i, encodeRaises) ==
    IF ~doc.isDict THEN <<>>
    ELSE IF encodeRaises THEN <<>>
    ELSE <<[id |-> doc_id(doc, i),
            values |-> embed_text(Get(doc.text, <<>>)),
            metadata |-> vector_metadata(doc)]>>

\* one pass of the per-document loop body: the vector appended, or none
\* when the entry is skipped (not a dict, no text) or processing raised
prepare_one(doc, i, encodeRaises) ==
    IF ~doc.isDict THEN <<>>
    ELSE IF Get(doc.text, <<>>) = <<>> THEN <<>>
    ELSE IF encodeRaises THEN <<>>
    ELSE <<[id |-> doc_id(doc, i),
            values |-> embed_text(Get(doc.text, <<>>)),
            metadata |-> vector_metadata(doc)]>>

\* vectors.insert(0, ...) in place of vectors.append(...)
prepare_prepend(documents, encFails) ==
    LET F[i \in 0..Len(documents)] ==
            IF i = 0 THEN <<>>
            ELSE prepare_one(documents[i], i, i \in encFails) \o F[i - 1]
    IN  F[Len(documents)]

\* the first loop of upsert_documents: the list `vectors`
prepare_vectors(documents, encFails) ==
    LET F[i \in 0..Len(documents)] ==
            IF i = 0 THEN <<>>
            ELSE F[i - 1] \o prepare_one(documents[i], i, i \in encFails)
    IN  F[Len(documents)]

\* range(0, len(vectors), batch_size) and the slices vectors[i:i+batch_size]
batches(vectors) ==
    [b \in 1..((Len(vectors) + batch_size - 1) \div batch_size) |->
        SubSeq(vectors, (b - 1) * batch_size + 1, Min(b * batch_size, Len(vectors)))]

\* index.upsert(vectors=batch): insert or overwrite by id, in batch order
RECURSIVE index_upsert(_, _)
index_upsert(idx, batch) ==
    IF batch = <<>> THEN idx
    ELSE index_upsert({r \in idx : r.id # Head(batch).id} \cup {Head(batch)}, Tail(batch))

\* one turn of the batch loop, from batch number b on
RECURSIVE upsert_from(_, _, _, _)
upsert_from(acc, bs, b, failing) ==
    IF b > Len(bs) THEN acc
    ELSE IF b \in failing
    THEN upsert_from([acc EXCEPT !.attempted = Append(@, [batch |-> bs[b], ok |-> FALSE])],
                     bs, b + 1, failing)
    ELSE upsert_from([index |-> index_upsert(acc.index, bs[b]),
                      total_upserted |-> acc.total_upserted + Len(bs[b]),
                      attempted |-> Append(acc.attempted, [batch |-> bs[b], ok |-> TRUE])],
                     bs, b + 1, failing)

\* the batch loop leaving at the first batch that raises
upsert_loop_abort(idx, bs, failing) ==
    upsert_from([index |-> idx, total_upserted |-> 0, attempted |-> <<>>],
                SubSeq(bs, 1, Min(Len(bs), IF failing = {} THEN Len(bs)
                                            ELSE CHOOSE b \in failing : \A c \in failing : b <= c)),
                1, failing)

\* the batch loop (lines 106-114): each batch is attempted in turn; a batch
\* whose index.upsert raises is logged and the loop goes on
upsert_loop(idx, bs, failing) ==
    upsert_from([index |-> idx, total_upserted |-> 0, attempted |-> <<>>], bs, 1, failing)

\* upsert_documents(documents): encFails are the positions whose encode
\* raises, failing the batch numbers whose index.upsert raises
upsert_documents(idx, documents, encFails, failing) ==
    upsert_loop(idx, batches(prepare_vectors(documents, encFails)), failing)

\* ------------------------------------------------------------ index query
NoStr == [kind |-> "str", body |-> <<>>]

NoDict == [text |-> <<>>, source |-> <<>>, metadata |-> <<>>]

\* a stored record as the index returns it with include_metadata=True
wire_match(r, q) ==
    [id |-> <<r.id>>,
     score |-> <<Score(q, r.values)>>,
     metadata |-> <<[fmt |-> "dict",
                     d |-> [text |-> <<r.metadata.text>>,
                            source |-> <<r.metadata.source>>,
                            metadata |-> <<r.metadata.metadata>>],
                     s |-> NoStr]>>]

Injective(s) == \A i, j \in 1..Len(s) : s[i] = s[j] => i = j

\* index.query(vector, top_k): the top_k nearest records by descending
\* similarity; the order among equal scores is the index's choice
index_query(idx, q, top_k) ==
    LET m == Min(top_k, Cardinality(idx))
    IN  {s \in [1..m -> idx] :
            /\ Injective(s)
            /\ \A i \in 1..(m - 1) : Score(q, s[i].values) >= Score(q, s[i + 1].values)
            /\ \A r \in idx : (\A i \in 1..m : s[i] # r)
                                => \A i \in 1..m : Score(q, r.values) <= Score(q, s[i].values)}

\* other shapes in which a match's fields can arrive
WireKinds == {"jsonstr", "badstr", "numstr", "nometa", "nonemeta", "bare"}

reshape(w, kind) ==
    LET d == w.metadata[1].d
    IN  CASE kind = "jsonstr" ->
               [w EXCEPT !.metadata =
                   <<[fmt |-> "str", d |-> NoDict,
                      s |-> json_dumps([kind |-> "map",
                                        body |-> <<"text", d.text[1][1], "source", d.source[1]>>])]>>]
          [] kind = "badstr" ->
               [w EXCEPT !.metadata =
                   <<[fmt |-> "str", d |-> NoDict, s |-> [kind |-> "str", body |-> <<"{", "text">>]]>>]
          [] kind = "numstr" ->
               [w EXCEPT !.metadata =
                   <<[fmt |-> "str", d |-> NoDict, s |-> [kind |-> "str", body |-> <<"5">>]]>>]
          [] kind = "nometa" -> [w EXCEPT !.metadata = <<>>]
          [] kind = "nonemeta" ->
               [w EXCEPT !.metadata = <<[fmt |-> "none", d |-> NoDict, s |-> NoStr]>>]
          [] OTHER -> [w EXCEPT !.id = <<>>, !.score = <<>>]

\* ----------------------------------------------------------------- search
\* metadata reading in which an unparseable string is an error like any other
read_metadata_strict(w) ==
    IF w.metadata = <<>> THEN [isDict |-> TRUE, d |-> NoDict]
    ELSE LET wm == w.metadata[1]
         IN  IF wm.fmt = "dict" THEN [isDict |-> TRUE, d |-> wm.d]
             ELSE [isDict |-> FALSE, d |-> NoDict]

\* lines 170-175: the metadata a match is read from; isDict is FALSE when
\* the value has no .get (None, or a JSON string holding a non-object)
read_metadata(w) ==
    IF w.metadata = <<>> THEN [isDict |-> TRUE, d |-> NoDict]
    ELSE LET wm == w.metadata[1]
         IN  IF wm.fmt = "dict" THEN [isDict |-> TRUE, d |-> wm.d]
             ELSE IF wm.fmt = "none" THEN [isDict |-> FALSE, d |-> NoDict]
             ELSE LET p == json_loads(wm.s)
                  IN  IF ~p.ok
                      THEN [isDict |-> TRUE, d |-> [NoDict EXCEPT !.text = <<wm.s.body>>]]
                      ELSE IF p.value.kind # "map" THEN [isDict |-> FALSE, d |-> NoDict]
                      ELSE LET t == MapGet(p.value.body, "text")
                               m == MapGet(p.value.body, "metadata")
                           IN  [isDict |-> TRUE,
                                d |-> [text |-> IF t = <<>> THEN <<>> ELSE << <<t[1]>> >>,
                                       source |-> MapGet(p.value.body, "source"),
                                       metadata |-> IF m = <<>> THEN <<>>
                                                    ELSE <<[kind |-> "str", body |-> m]>>]]

\* lines 178-188: the Match built from one returned match
make_match(w) ==
    LET d == read_metadata(w).d
    IN  [id |-> Get(w.id, ""),
         score |-> Get(w.score, 0),
         metadata |-> [text |-> Get(d.text, <<>>),
                       source |-> Get(d.source, "unknown"),
                       metadata |-> Get(d.metadata, EmptyMap)]]

\* search with no try around the index call
search_unguarded(encodeRaises, resp) ==
    IF encodeRaises \/ resp.kind \in {"raise", "none"}
    THEN [raised |-> TRUE, caught |-> FALSE, matches |-> <<>>]
    ELSE IF resp.kind # "ok" THEN [raised |-> FALSE, caught |-> FALSE, matches |-> <<>>]
    ELSE IF \E i \in 1..Len(resp.matches) : ~read_metadata(resp.matches[i]).isDict
    THEN [raised |-> TRUE, caught |-> FALSE, matches |-> <<>>]
    ELSE [raised |-> FALSE, caught |-> FALSE,
          matches |-> [i \in 1..Len(resp.matches) |-> make_match(resp.matches[i])]]

\* VectorDB.search: encodeRaises is embed_text raising (outside the try);
\* resp is what index.query did: kind "raise", "none" (no response object),
\* "nokey" (no 'matches' key) or "ok" with the matches.  raised: the call
\* raised; caught: the except of lines 192-198 ran
search(encodeRaises, resp) ==
    IF encodeRaises THEN [raised |-> TRUE, caught |-> FALSE, matches |-> <<>>]
    ELSE IF resp.kind \in {"raise", "none"}
    THEN [raised |-> FALSE, caught |-> TRUE, matches |-> <<>>]
    ELSE IF resp.kind # "ok" THEN [raised |-> FALSE, caught |-> FALSE, matches |-> <<>>]
    ELSE IF \E i \in 1..Len(resp.matches) : ~read_metadata(resp.matches[i]).isDict
    THEN [raised |-> FALSE, caught |-> TRUE, matches |-> <<>>]
    ELSE [raised |-> FALSE, caught |-> FALSE,
          matches |-> [i \in 1..Len(resp.matches) |-> make_match(resp.matches[i])]]

Queries == {<<>>, <<"relativity">>}

\* what index.query can do for a query
Responses(idx, query, top_k) ==
    {[kind |-> k, matches |-> <<>>] : k \in {"raise", "none", "nokey"}}
    \cup {[kind |-> "ok", matches |-> [i \in 1..Len(s) |-> wire_match(s[i], embed_text(query))]] :
             s \in index_query(idx, embed_text(query), top_k)}
    \cup {[kind |-> "ok",
           matches |-> [i \in 1..Len(s) |->
                           IF i = p THEN reshape(wire_match(s[i], embed_text(query)), k)
                           ELSE wire_match(s[i], embed_text(query))]] :
             <<s, p, k>> \in {x \in index_query(idx, embed_text(query), top_k)
                                    \X (1..MaxTopK) \X WireKinds : x[2] \in {1, Len(x[1])}}}

\* --------------------------------------------------------------- strings
Whitespace == {" ", "\n"}

\* str.strip()
RECURSIVE LStrip(_)
LStrip(t) == IF t # <<>> /\ Head(t) \in Whitespace THEN LStrip(Tail(t)) ELSE t

Strip(t) == Reverse(LStrip(Reverse(LStrip(t))))

\* str.lower(), token by token
Lower(tok) ==
    CASE tok = "Not Found" -> "not found"
      [] tok = "UNSUPPORTED" -> "unsupported"
      [] tok = "Quota" -> "quota"
      [] OTHER -> tok

\* needle in str(e).lower()
Contains(msg, needle) == \E i \in 1..Len(msg) : Lower(msg[i]) = needle

\* ------------------------------------------------------- generative model
preferred_model_name == "gemini-1.5-flash"

Flash == [name |-> "models/gemini-1.5-flash", methods |-> {"generateContent", "countTokens"}]

Pro == [name |-> "models/gemini-pro", methods |-> {"generateContent"}]

Embedding == [name |-> "models/embedding-001", methods |-> {"embedContent"}]

\* what genai.list_models() can hold
Catalogs == {<<Embedding>>, <<Embedding, Pro>>, <<Flash>>, <<Pro, Embedding, Flash>>}

\* [m.name for m in genai.list_models() if 'generateContent' in m.supported_generation_methods]
available_models(cat) ==
    LET capable == SelectSeq(cat, LAMBDA m : "generateContent" \in m.methods)
    IN  [i \in 1..Len(capable) |-> capable[i].name]

\* name.replace('models/', '')
strip_prefix(name) ==
    CASE name = "models/gemini-1.5-flash" -> "gemini-1.5-flash"
      [] name = "models/gemini-pro" -> "gemini-pro"
      [] name = "models/embedding-001" -> "embedding-001"
      [] OTHER -> name

\* the first listed model taken whether or not the preferred one is listed
initial_model_first(available) == strip_prefix(available[1])

\* RAGPipeline.__init__: the model chosen from the available ones
initial_model(available) ==
    IF \E i \in 1..Len(available) : available[i] = "models/" \o preferred_model_name
    THEN preferred_model_name
    ELSE strip_prefix(available[1])

\* RAGPipeline.__init__ (lines 16-41): listing is [raises, cat], what
\* genai.list_models() does.  Whatever is raised inside the try is re-raised
\* by line 41, so no object is made; GenerativeModel(name) only builds a
\* local handle.
RAGPipeline_init(listing) ==
    IF listing.raises
    THEN [raised |-> TRUE, model |-> ""]
    ELSE LET available == available_models(listing.cat)
         IN  IF available = <<>>
             THEN [raised |-> TRUE, model |-> ""]
             ELSE [raised |-> FALSE, model |-> initial_model(available)]

NoModelsApology == <<"I'm sorry, no compatible Gemini models are available right now.">>

UnavailableApology ==
    <<"I'm sorry, the language model is currently unavailable. Please try again later.">>

ErrorApology == <<"I'm sorry, I encountered an error while generating a response.">>

Replies == {<<" ", "Einstein", "\n">>, <<" ">>}

NotFoundErrors ==
    {<<"404", "models/x", "is", "not", "found">>, <<"Model", "Not Found">>, <<"UNSUPPORTED", "model">>}

OtherErrors == {<<"429", "Quota", "exceeded">>}

NoOutcome == [ok |-> FALSE, text |-> <<>>, msg |-> <<>>]

\* what model.generate_content can do for the active model: a model the
\* provider does not serve is not found; any call can fail otherwise
Outcomes(active, cat) ==
    {[ok |-> FALSE, text |-> <<>>, msg |-> m] : m \in OtherErrors}
    \cup (IF \E i \in 1..Len(available_models(cat)) :
                available_models(cat)[i] = "models/" \o active
          THEN {[ok |-> TRUE, text |-> t, msg |-> <<>>] : t \in Replies}
          ELSE {[ok |-> FALSE, text |-> <<>>, msg |-> m] : m \in NotFoundErrors})

\* line 53
not_found_class(msg) ==
    Contains(msg, "404") \/ Contains(msg, "not found") \/ Contains(msg, "unsupported")

\* the retry with the fallback model never assigned to self.model
fallback_keeps_handle(active, listing, out2) ==
    IF listing.raises
    THEN [answer |-> UnavailableApology, model |-> active, invokes |-> 1, lists |-> 1,
          switches |-> 0, raised |-> FALSE]
    ELSE IF available_models(listing.cat) = <<>>
    THEN [answer |-> NoModelsApology, model |-> active, invokes |-> 1, lists |-> 1,
          switches |-> 0, raised |-> FALSE]
    ELSE [answer |-> IF out2.ok THEN Strip(out2.text) ELSE UnavailableApology,
          model |-> active, invokes |-> 2, lists |-> 1, switches |-> 1, raised |-> FALSE]

\* the retry of lines 56-68: listing is [raises, cat], out2 the outcome of
\* the second generate_content
fallback(active, listing, out2) ==
    IF listing.raises
    THEN [answer |-> UnavailableApology, model |-> active, invokes |-> 1, lists |-> 1,
          switches |-> 0, raised |-> FALSE]
    ELSE LET models == available_models(listing.cat)
         IN  IF models = <<>>
             THEN [answer |-> NoModelsApology, model |-> active, invokes |-> 1, lists |-> 1,
                   switches |-> 0, raised |-> FALSE]
             ELSE [answer |-> IF out2.ok THEN Strip(out2.text) ELSE UnavailableApology,
                   model |-> strip_prefix(models[1]), invokes |-> 2, lists |-> 1,
                   switches |-> 1, raised |-> FALSE]

\* every error of the first generate_content sent to the fallback
call_gemini_generate_relist(active, out1, listing, out2) ==
    IF out1.ok
    THEN [answer |-> Strip(out1.text), model |-> active, invokes |-> 1, lists |-> 0,
          switches |-> 0, raised |-> FALSE]
    ELSE fallback(active, listing, out2)

\* call_gemini_generate: out1 is the outcome of the first generate_content
call_gemini_generate(active, out1, listing, out2) ==
    IF out1.ok
    THEN [answer |-> Strip(out1.text), model |-> active, invokes |-> 1, lists |-> 0,
          switches |-> 0, raised |-> FALSE]
    ELSE IF not_found_class(out1.msg) THEN fallback(active, listing, out2)
    ELSE [answer |-> ErrorApology, model |-> active, invokes |-> 1, lists |-> 0,
          switches |-> 0, raised |-> FALSE]

\* ----------------------------------------------------------- orchestrator
NoInfoAnswer == <<"I couldn't find any relevant information to answer your question.">>

ErrorAnswer == <<"I encountered an error while processing your request. Please try again.">>

\* _format_context without the header line of each section
format_context_bare(matches) ==
    Strip(Flatten([i \in 1..Len(matches) |-> matches[i].metadata.text \o <<"\n", "\n">>]))

\* _format_context: a numbered section per match, stripped
format_context(matches) ==
    Strip(Flatten([i \in 1..Len(matches) |->
                      <<"Context", ToString(i), "(Source:", matches[i].metadata.source, "):", "\n">>
                      \o matches[i].metadata.text \o <<"\n", "\n">>]))

sources_reversed(matches) ==
    [i \in 1..Len(matches) |->
        [text |-> matches[Len(matches) + 1 - i].metadata.text,
         source |-> matches[Len(matches) + 1 - i].metadata.source,
         score |-> matches[Len(matches) + 1 - i].score]]

\* lines 113-121: the sources of the response
sources_of(matches) ==
    [i \in 1..Len(matches) |->
        [text |-> matches[i].metadata.text,
         source |-> matches[i].metadata.source,
         score |-> matches[i].score]]

NoGen == [answer |-> <<>>, model |-> "", invokes |-> 0, lists |-> 0, switches |-> 0,
          raised |-> FALSE]

\* the try block of generate_response (lines 86-122); sr is what
\* vector_db.search did, gen what call_gemini_generate does with the prompt
response_body(active, sr, gen) ==
    IF sr.raised
    THEN [raised |-> TRUE, answer |-> <<>>, sources |-> <<>>, genCalls |-> 0,
          gen |-> [NoGen EXCEPT !.model = active]]
    ELSE IF format_context(sr.matches) = <<>>
    THEN [raised |-> FALSE, answer |-> NoInfoAnswer, sources |-> <<>>, genCalls |-> 0,
          gen |-> [NoGen EXCEPT !.model = active]]
    ELSE [raised |-> gen.raised, answer |-> gen.answer, sources |-> sources_of(sr.matches),
          genCalls |-> 1, gen |-> gen]

\* generate_response with no except around the body
generate_response_uncaught(active, sr, gen) == response_body(active, sr, gen)

\* generate_response: the except of lines 124-129 around the body
generate_response(active, sr, gen) ==
    LET body == response_body(active, sr, gen)
    IN  IF body.raised
        THEN [body EXCEPT !.raised = FALSE, !.answer = ErrorAnswer, !.sources = <<>>]
        ELSE body

\* ------------------------------------------------------- input documents
NotADict == [isDict |-> FALSE, id |-> <<>>, text |-> <<>>, source |-> <<>>, metadata |-> <<>>]

TextOf(i, ver) ==
    CASE (i + ver) % 3 = 0 -> <<"relativity">>
      [] (i + ver) % 3 = 1 -> <<"quantum", "mechanics">>
      [] OTHER -> <<" ">>

MetaOf(i, ver) ==
    IF (i + ver) % 2 = 0 THEN [kind |-> "map", body |-> <<"year", "1905">>]
    ELSE [kind |-> "map", body |-> <<"author", "Journal", "year", "1920">>]

\* a well-formed document; the ids are 1..MaxIds in turn, an integer at odd
\* positions and a string at even ones
GoodDoc(i, ver) ==
    [isDict |-> TRUE,
     id |-> <<[kind |-> IF i % 2 = 1 THEN "int" ELSE "str",
               v |-> ToString(((i - 1) % MaxIds) + 1)]>>,
     text |-> <<TextOf(i, ver)>>,
     source |-> <<IF ver = 0 THEN "physics" ELSE "history">>,
     metadata |-> <<MetaOf(i, ver)>>]

SpecialDoc(kind, i, ver) ==
    CASE kind = "notdict" -> NotADict
      [] kind = "emptytext" -> [GoodDoc(i, ver) EXCEPT !.text = << <<>> >>]
      [] kind = "notext" -> [GoodDoc(i, ver) EXCEPT !.text = <<>>]
      [] kind = "bare" -> [GoodDoc(i, ver) EXCEPT !.id = <<>>, !.source = <<>>, !.metadata = <<>>]
      [] kind = "sameid" -> [GoodDoc(i, ver) EXCEPT !.id = GoodDoc(1, ver).id]
      [] OTHER -> GoodDoc(i, ver)

\* a list of n documents with one special entry of the given kind at pos
Documents(n, pos, kind, ver) ==
    [i \in 1..n |-> IF i = pos THEN SpecialDoc(kind, i, ver) ELSE GoodDoc(i, ver)]

\* the lists of n entries: all good, a malformed or bare first entry, a
\* last entry that is no dict or repeats the first entry's id
Shapes(n) ==
    {<<0, "good">>}
    \cup (({1} \cap (1..n)) \X {"emptytext", "notext", "bare"})
    \cup (({n} \cap (1..n)) \X {"notdict", "sameid"})

ShortLens == 0..MaxDocs

LongLens == {b * batch_size + r : b \in 1..MaxLongBatches, r \in 0..1}

\* ----------------------------------------------------------------- state
NoModel == ""

NoCall ==
    [op |-> "none",
     documents |-> <<>>, encFails |-> {}, attempted |-> <<>>, total_upserted |-> 0,
     stored |-> {},
     query |-> <<>>, top_k |-> 0, encodeRaises |-> FALSE,
     resp |-> [kind |-> "none", matches |-> <<>>], matches |-> <<>>, caught |-> FALSE,
     before |-> NoModel, out1 |-> NoOutcome, listRaises |-> FALSE, listed |-> <<>>,
     out2 |-> NoOutcome,
     answer |-> <<>>, sources |-> <<>>, genCalls |-> 0,
     invokes |-> 0, lists |-> 0, switches |-> 0,
     switchedBefore |-> FALSE,
     raised |-> FALSE]

\* whether some call on the pipeline, the last one included, has switched
\* the active model
Switched == last.switchedBefore \/ last.switches = 1

\* VectorDB.__init__ creates the index or connects to the one that exists,
\* which holds what earlier runs stored
ExistingIndexes ==
    {{}, upsert_documents({}, Documents(2, 0, "good", 0), {}, {}).index}

\* a VectorDB constructed, no pipeline yet
InitVectorDB ==
    /\ index \in ExistingIndexes
    /\ model = NoModel
    /\ catalog = <<>>
    /\ last = NoCall
    /\ calls = 0

\* a VectorDB and a RAGPipeline constructed: the provider lists at least one
\* capable model and the active model is the one __init__ chose
Init ==
    /\ index \in ExistingIndexes
    /\ catalog \in {c \in Catalogs : available_models(c) # <<>>}
    /\ model = initial_model(available_models(catalog))
    /\ last = NoCall
    /\ calls = 0

\* what the provider does during one call_gemini_generate: the outcome of
\* the first generate_content, of list_models, and of the retry
GenEnvs(active, cat) ==
    {[out1 |-> o, listing |-> [raises |-> FALSE, cat |-> cat], out2 |-> NoOutcome] :
        o \in {x \in Outcomes(active, cat) : x.ok \/ ~not_found_class(x.msg)}}
    \cup {[out1 |-> o, listing |-> [raises |-> TRUE, cat |-> cat], out2 |-> NoOutcome] :
        o \in {x \in Outcomes(active, cat) : ~x.ok /\ not_found_class(x.msg)}}
    \cup {[out1 |-> o, listing |-> [raises |-> FALSE, cat |-> cat], out2 |-> o2] :
        o \in {x \in Outcomes(active, cat) : ~x.ok /\ not_found_class(x.msg)},
        o2 \in IF available_models(cat) = <<>> THEN {NoOutcome}
                ELSE Outcomes(strip_prefix(available_models(cat)[1]), cat)}

GenRecord(base, env, g) ==
    [base EXCEPT !.out1 = env.out1, !.listRaises = env.listing.raises,
                 !.listed = available_models(env.listing.cat), !.out2 = env.out2,
                 !.invokes = g.invokes, !.lists = g.lists, !.switches = g.switches,
                 !.switchedBefore = Switched]

Upsert(lens) ==
    /\ calls < MaxCalls
    /\ \E n \in lens, ver \in 0..1 :
       \E shape \in Shapes(n), enc \in {0, 1} \cap (0..n) :
          /\ enc # 0 => shape[1] = 0
          /\ \E documents \in {Documents(n, shape[1], shape[2], ver)} :
             \E bs \in {batches(prepare_vectors(documents, {enc} \ {0}))} :
             \E failing \in SUBSET (1..Len(bs)) :
             \E r \in {upsert_documents(index, documents, {enc} \ {0}, failing)} :
                /\ index' = r.index
                /\ last' = [NoCall EXCEPT !.op = "upsert",
                                          !.documents = documents,
                                          !.encFails = {enc} \ {0},
                                          !.attempted = r.attempted,
                                          !.stored = index,
                                          !.switchedBefore = Switched,
                                          !.total_upserted = r.total_upserted]
    /\ calls' = calls + 1
    /\ UNCHANGED <<model, catalog>>

Search ==
    /\ \E query \in Queries, top_k \in 0..MaxTopK :
          \/ last' = [NoCall EXCEPT !.op = "search", !.query = query, !.top_k = top_k,
                                    !.encodeRaises = TRUE,
                                    !.switchedBefore = Switched,
                                    !.raised = search(TRUE, NoCall.resp).raised]
          \/ \E resp \in Responses(index, query, top_k) :
             \E r \in {search(FALSE, resp)} :
                last' = [NoCall EXCEPT !.op = "search", !.query = query, !.top_k = top_k,
                                      !.resp = resp,
                                      !.matches = r.matches,
                                      !.caught = r.caught,
                                      !.switchedBefore = Switched,
                                      !.raised = r.raised]
    /\ UNCHANGED <<index, model, catalog, calls>>

\* a call of call_gemini_generate on the pipeline object
Generate ==
    /\ model # NoModel
    /\ \E env \in GenEnvs(model, catalog) :
       \E g \in {call_gemini_generate(model, env.out1, env.listing, env.out2)} :
          /\ model' = g.model
          /\ last' = GenRecord([NoCall EXCEPT !.op = "generate", !.before = model,
                                              !.answer = g.answer, !.genCalls = 1,
                                              !.raised = g.raised],
                                env, g)
    /\ UNCHANGED <<index, catalog, calls>>

Respond ==
    /\ model # NoModel
    /\ \E query \in Queries, top_k \in 0..MaxTopK :
       \E encodeRaises \in BOOLEAN :
       \E resp \in IF encodeRaises THEN {NoCall.resp} ELSE Responses(index, query, top_k) :
       \E sr \in {search(encodeRaises, resp)} :
       \E env \in IF sr.matches = <<>>
                   THEN {CHOOSE e \in GenEnvs(model, catalog) : TRUE}
                   ELSE GenEnvs(model, catalog) :
       \E r \in {generate_response(model, sr,
                      call_gemini_generate(model, env.out1, env.listing, env.out2))} :
          /\ model' = r.gen.model
          /\ last' = IF r.genCalls = 0
                     THEN [NoCall EXCEPT !.op = "respond", !.query = query, !.top_k = top_k,
                                         !.encodeRaises = encodeRaises, !.resp = resp,
                                         !.matches = sr.matches, !.caught = sr.caught,
                                         !.before = model,
                                         !.answer = r.answer, !.sources = r.sources,
                                         !.switchedBefore = Switched,
                                         !.raised = r.raised]
                     ELSE GenRecord([NoCall EXCEPT !.op = "respond", !.query = query,
                                                  !.top_k = top_k,
                                                  !.encodeRaises = encodeRaises, !.resp = resp,
                                                  !.matches = sr.matches, !.caught = sr.caught,
                                                  !.before = model,
                                                  !.answer = r.answer, !.sources = r.sources,
                                                  !.genCalls = r.genCalls,
                                                  !.raised = r.raised],
                                    env, r.gen)
    /\ UNCHANGED <<index, catalog, calls>>

\* the provider's list of models changes
CatalogChange ==
    /\ catalog' \in Catalogs \ {catalog}
    /\ last' = [NoCall EXCEPT !.op = "catalog", !.switchedBefore = Switched]
    /\ UNCHANGED <<index, model, calls>>

\* RAGPipeline(vector_db) where no pipeline exists yet
Construct ==
    /\ model = NoModel
    /\ \E raises \in BOOLEAN :
       \E r \in {RAGPipeline_init([raises |-> raises, cat |-> catalog])} :
          /\ model' = r.model
          /\ last' = [NoCall EXCEPT !.op = "construct", !.listRaises = raises,
                                    !.listed = IF raises THEN <<>>
                                               ELSE available_models(catalog),
                                    !.raised = r.raised]
    /\ UNCHANGED <<index, catalog, calls>>

UpsertShort == Upsert(ShortLens)

UpsertLong == Upsert(LongLens)

Next ==
    UpsertShort \/ UpsertLong \/ Search \/ Construct \/ Generate \/ Respond \/ CatalogChange

Spec == Init /\ [][Next]_vars

\* Parts of Spec, each small enough to be explored in full.
\* ingestion at batch scale
NextDB == UpsertShort \/ UpsertLong

SpecDB == InitVectorDB /\ [][NextDB]_vars

\* ingestion of short lists, and queries
NextIndex == UpsertShort \/ Search

SpecIndex == InitVectorDB /\ [][NextIndex]_vars

\* the pipeline over an index that exists
NextPipeline == Generate \/ Respond \/ CatalogChange

SpecPipeline == Init /\ [][NextPipeline]_vars

\* the life of the model handle: construction, calls, a changing provider
NextModel == Construct \/ Generate \/ CatalogChange

SpecModel == InitVectorDB /\ [][NextModel]_vars

\* ================================================================ claims
\* ----- helpers over the record of the last upsert_documents call
Docs == last.documents

Att == last.attempted

\* the entries of the input that pass the per-document loop
Valid(i) ==
    /\ Docs[i].isDict
    /\ Docs[i].text # <<>>
    /\ Docs[i].text[1] # <<>>
    /\ i \notin last.encFails

\* the positions of the valid entries, in input order
ValidSeq == SelectSeq([i \in 1..Len(Docs) |-> i], LAMBDA i : Valid(i))

Sent == Flatten([b \in 1..Len(Att) |-> Att[b].batch])

\* the vector expected for the input entry at position i
Expected(i) ==
    [id |-> IF Docs[i].id = <<>> THEN "doc_" \o ToString(i) ELSE Docs[i].id[1].v,
     values |-> embed_text(Docs[i].text[1]),
     metadata |-> [text |-> Docs[i].text[1],
                   source |-> IF Docs[i].source = <<>> THEN "unknown" ELSE Docs[i].source[1],
                   metadata |-> json_dumps(IF Docs[i].metadata = <<>> THEN EmptyMap
                                           ELSE Docs[i].metadata[1])]]

\* the vectors expected from the input, in input order
ExpectedSeq == [k \in 1..Len(ValidSeq) |-> Expected(ValidSeq[k])]

\* the number of the batch that carries the k-th valid entry
BatchOf(k) == ((k - 1) \div batch_size) + 1

RECURSIVE SumOk(_)
SumOk(att) ==
    IF att = <<>> THEN 0
    ELSE (IF Head(att).ok THEN Len(Head(att).batch) ELSE 0) + SumOk(Tail(att))

\* C5: an entry that is not a dict or has no text is skipped without failing
\* the call: the vectors sent are exactly the entries that pass the loop, in
\* input order, none of them with an empty text; no stored record has an
\* empty text, and every match a query returns is a stored record.
C5_SkippedNeverSent ==
    /\ \A r \in index : r.metadata.text # <<>>
    /\ last.op = "upsert" =>
          LET sent == Sent
          IN  /\ ~last.raised
              /\ sent = ExpectedSeq
              /\ \A k \in 1..Len(sent) : sent[k].metadata.text # <<>>
    /\ last.op = "search" =>
          \A i \in 1..Len(last.matches) :
             last.resp.matches[i].id # <<>> =>
                \E r \in index :
                   /\ r.id = last.matches[i].id
                   /\ r.metadata.text # <<>>
                   /\ (/\ last.resp.matches[i].metadata # <<>>
                       /\ last.resp.matches[i].metadata[1].fmt = "dict")
                      => last.matches[i].metadata.text = r.metadata.text

C5_Witness ==
    /\ last.op = "upsert"
    /\ Len(Docs) = 2
    /\ Docs[1].isDict /\ Docs[1].text = << <<>> >>
    /\ Len(Sent) = 1
    /\ Sent[1] = Expected(2)
    /\ Att[1].ok
    /\ \E r \in index : r.id = Sent[1].id

\* C6: the index holds one record per id; after a call the record of every
\* id sent in a batch the index accepted is the last entry of the input, in
\* input order, that carries that id in an accepted batch, and the records
\* of the other ids are those stored before the call.
C6_OneRecordPerId ==
    /\ \A r1, r2 \in index : r1.id = r2.id => r1 = r2
    /\ last.op = "upsert" =>
          LET es == ExpectedSeq
              att == Att
              accepted == {k \in 1..Len(es) : att[BatchOf(k)].ok}
          IN  /\ \A k \in accepted :
                    (\A l \in accepted : es[l].id = es[k].id => l <= k) => es[k] \in index
              /\ \A r \in last.stored :
                    (\A k \in accepted : es[k].id # r.id) => r \in index
              /\ \A r \in index : r \in last.stored \/ \E k \in accepted : es[k] = r

\* an accepted call that overwrites a record stored before it, and holds
\* the same id twice, in two batches
C6_Witness ==
    /\ last.op = "upsert"
    /\ \A b \in 1..Len(Att) : Att[b].ok
    /\ Len(Docs) = batch_size + 1
    /\ \A i \in 1..Len(Docs) : Valid(i)
    /\ Expected(1).id = Expected(batch_size + 1).id
    /\ Expected(1).metadata.text # Expected(batch_size + 1).metadata.text
    /\ Expected(batch_size + 1) \in index
    /\ Expected(1) \notin index
    /\ Cardinality({r \in index : r.id = Expected(1).id}) = 1
    /\ \E r \in last.stored :
          /\ r.id = Expected(batch_size).id
          /\ r # Expected(batch_size)
          /\ r \notin index
    /\ Expected(batch_size) \in index

\* C10: the valid vectors go to the index in consecutive batches of at most
\* 20 that cover them once each in input order; every batch is attempted
\* whatever happened to the earlier ones, and the total reported is the sum
\* of the sizes of the batches that succeeded.
C10_SerialBatches ==
    last.op = "upsert" =>
       LET es == ExpectedSeq
           att == Att
       IN  /\ Len(att) = (Len(es) + batch_size - 1) \div batch_size
           /\ \A b \in 1..Len(att) :
                 /\ Len(att[b].batch) >= 1
                 /\ Len(att[b].batch) <= batch_size
                 /\ b < Len(att) => Len(att[b].batch) = batch_size
                 /\ \A j \in 1..Len(att[b].batch) :
                       att[b].batch[j] = es[(b - 1) * batch_size + j]
           /\ Len(Sent) = Len(es)
           /\ last.total_upserted = SumOk(att)

C10_Witness ==
    /\ last.op = "upsert"
    /\ Len(Att) = 2
    /\ ~Att[1].ok
    /\ Att[2].ok
    /\ last.total_upserted = 1

\* ----- helpers over the record of the last search call
Wire == last.resp.matches

IsStr(w) == w.metadata # <<>> /\ w.metadata[1].fmt = "str"

Unparseable(w) == IsStr(w) /\ ~json_loads(w.metadata[1].s).ok

\* the value read as metadata has no .get: None, or a string holding a
\* JSON value that is not an object
NotAnObject(w) ==
    /\ w.metadata # <<>>
    /\ \/ w.metadata[1].fmt = "none"
       \/ /\ w.metadata[1].fmt = "str"
          /\ json_loads(w.metadata[1].s).ok
          /\ json_loads(w.metadata[1].s).value.kind # "map"

PlainResponse ==
    /\ last.resp.kind = "ok"
    /\ \A i \in 1..Len(Wire) :
          /\ Wire[i].id # <<>>
          /\ Wire[i].metadata # <<>>
          /\ Wire[i].metadata[1].fmt = "dict"

\* C4 as claimed: a match returned for a stored document carries the
\* document's extra-metadata map itself, not its JSON serialization.
C4_MetadataRoundTrip ==
    (last.op = "search" /\ PlainResponse) =>
       \A i \in 1..Len(last.matches) :
          \E r \in index :
             /\ r.id = last.matches[i].id
             /\ last.matches[i].metadata.metadata = json_loads(r.metadata.metadata).value

\* C7 as claimed: search never raises, whatever fails while it serves the
\* query, the steps before the index call included.
C7_SearchNeverRaises ==
    last.op = "search" => ~last.raised

\* C7 as amended: search raises exactly when the embedding step does; an
\* error at or after the index call (the query raising, no response object,
\* a match whose metadata has no .get) gives an empty result set, as does a
\* response without matches.
C7_SearchEmptyOnIndexError ==
    last.op = "search" =>
       /\ last.raised = last.encodeRaises
       /\ (~last.encodeRaises /\ last.resp.kind # "ok") => last.matches = <<>>
       /\ (~last.encodeRaises /\ last.resp.kind = "ok"
             /\ \E i \in 1..Len(Wire) : NotAnObject(Wire[i])) => last.matches = <<>>

C7_Witness ==
    /\ last.op = "search"
    /\ index # {}
    /\ last.top_k > 0
    /\ last.resp.kind = "raise"
    /\ ~last.raised
    /\ last.matches = <<>>

\* C9 as claimed: a match whose metadata string cannot be parsed is returned
\* with empty text, the default source and empty metadata, and the other
\* matches stay.
C9_UnparseableGivesEmptyFields ==
    (last.op = "search" /\ last.resp.kind = "ok"
        /\ \A i \in 1..Len(Wire) : ~NotAnObject(Wire[i])) =>
       /\ Len(last.matches) = Len(Wire)
       /\ \A i \in 1..Len(Wire) :
             Unparseable(Wire[i]) =>
                last.matches[i].metadata =
                   [text |-> <<>>, source |-> "unknown", metadata |-> EmptyMap]

\* C9 as amended: a metadata string holding a JSON object is deserialized
\* and its fields read; one that cannot be parsed gives a match whose text
\* is the raw string, with the default source and empty metadata; neither
\* removes the other matches.  A string (or None) that holds no object
\* empties the whole result.
C9_UnparseableKeepsRawText ==
    (last.op = "search" /\ ~last.encodeRaises /\ last.resp.kind = "ok") =>
       IF \E i \in 1..Len(Wire) : NotAnObject(Wire[i])
       THEN last.matches = <<>>
       ELSE /\ Len(last.matches) = Len(Wire)
            /\ \A i \in 1..Len(Wire) :
                  /\ Unparseable(Wire[i]) =>
                        last.matches[i].metadata =
                           [text |-> Wire[i].metadata[1].s.body,
                            source |-> "unknown", metadata |-> EmptyMap]
                  /\ (IsStr(Wire[i]) /\ ~Unparseable(Wire[i])) =>
                        LET obj == json_loads(Wire[i].metadata[1].s).value.body
                        IN  /\ last.matches[i].metadata.text =
                                  (IF MapGet(obj, "text") = <<>> THEN <<>> ELSE MapGet(obj, "text"))
                            /\ last.matches[i].metadata.source =
                                  (IF MapGet(obj, "source") = <<>> THEN "unknown"
                                   ELSE MapGet(obj, "source")[1])
                  /\ (Wire[i].metadata # <<>> /\ Wire[i].metadata[1].fmt = "dict") =>
                        /\ last.matches[i].metadata.text = Wire[i].metadata[1].d.text[1]
                        /\ last.matches[i].metadata.source = Wire[i].metadata[1].d.source[1]
                        /\ last.matches[i].metadata.metadata = Wire[i].metadata[1].d.metadata[1]

C9_Witness ==
    /\ last.op = "search"
    /\ Len(last.matches) = 2
    /\ Unparseable(Wire[1])
    /\ last.matches[1].metadata.text = <<"{", "text">>
    /\ Wire[2].metadata[1].fmt = "dict"
    /\ last.matches[2].metadata.text = Wire[2].metadata[1].d.text[1]

\* ----- helpers over the record of the last pipeline call
FirstNotFound == ~last.out1.ok /\ last.out1.msg \in NotFoundErrors

\* a is t without its leading and trailing whitespace
IsStripOf(a, t) ==
    /\ a # <<>> => a[1] \notin Whitespace /\ a[Len(a)] \notin Whitespace
    /\ \E i \in 1..(Len(t) + 1) :
          /\ a = SubSeq(t, i, i + Len(a) - 1)
          /\ \A j \in 1..Len(t) : (j < i \/ j >= i + Len(a)) => t[j] \in Whitespace

Apologies == {NoModelsApology, UnavailableApology, ErrorApology}

\* C1 as claimed: generate_response never raises, and an exception anywhere
\* in the flow (in the search, in the generator) gives the fixed apology
\* answer with no sources.
C1_AnyExceptionGivesApology ==
    last.op = "respond" =>
       /\ ~last.raised
       /\ (last.encodeRaises \/ last.caught \/ (last.genCalls = 1 /\ ~last.out1.ok))
          => (last.answer = ErrorAnswer /\ last.sources = <<>>)

\* C1 as amended: generate_response never raises.  An exception that leaves
\* VectorDB.search (the embedding step) gives the fixed apology answer with
\* no sources; one caught inside search gives the no-information answer with
\* no sources; one of the generative model is absorbed by
\* call_gemini_generate, whose reply or apology string is the answer, with
\* the sources of the matches.
C1_NeverRaises ==
    last.op = "respond" =>
       /\ ~last.raised
       /\ last.encodeRaises => (last.answer = ErrorAnswer /\ last.sources = <<>>)
       /\ (~last.encodeRaises /\ last.caught)
          => (last.answer = NoInfoAnswer /\ last.sources = <<>>)
       /\ (last.genCalls = 1 /\ ~last.out1.ok)
          => /\ Len(last.sources) = Len(last.matches)
             /\ last.sources # <<>>
             /\ \/ last.answer \in Apologies
                \/ last.out2.ok /\ IsStripOf(last.answer, last.out2.text)

C1_Witness ==
    /\ last.op = "respond"
    /\ index # {}
    /\ last.top_k > 0
    /\ last.encodeRaises
    /\ ~last.raised
    /\ last.answer = ErrorAnswer
    /\ last.sources = <<>>

\* C2: with zero matches the answer is the fixed no-information answer with
\* no sources and the generative model is not touched (no generate_content,
\* no list_models, the active model as before); with at least one match
\* call_gemini_generate is called once.
C2_NoMatchesNoGeneration ==
    (last.op = "respond" /\ ~last.encodeRaises) =>
       /\ last.matches = <<>> =>
             /\ last.answer = NoInfoAnswer
             /\ last.sources = <<>>
             /\ last.genCalls = 0
             /\ last.invokes = 0
             /\ last.lists = 0
             /\ model = last.before
       /\ last.matches # <<>> =>
             /\ last.genCalls = 1
             /\ last.invokes >= 1

C2_Witness ==
    /\ last.op = "respond"
    /\ index # {}
    /\ last.resp.kind = "ok"
    /\ last.matches = <<>>
    /\ last.answer = NoInfoAnswer
    /\ last.top_k = 0
    /\ last.invokes = 0
    /\ model = last.before

\* C3 as claimed: when the first invocation fails with a not-found class of
\* error the call switches the model exactly once and retries exactly once,
\* and the answer is a non-empty reply of the second attempt or the fixed
\* apology; the call never raises.
C3_ExactlyOneFallback ==
    (last.op = "generate" /\ FirstNotFound) =>
       /\ ~last.raised
       /\ last.switches = 1
       /\ last.invokes = 2
       /\ \/ last.out2.ok /\ last.answer # <<>>
          \/ last.answer = UnavailableApology

\* C3 as amended: after a not-found class of error the call lists the models
\* once and never raises.  When the listing raises or holds no capable model
\* there is no switch and no retry and the answer is a fixed apology; when
\* it holds one, the call switches once to the first listed capable model
\* and retries once, and the answer is the stripped reply of the retry,
\* which may be empty, or the fixed apology.
C3_AtMostOneFallback ==
    (last.op = "generate" /\ FirstNotFound) =>
       /\ ~last.raised
       /\ last.lists = 1
       /\ last.listRaises =>
             /\ last.switches = 0 /\ last.invokes = 1
             /\ last.answer = UnavailableApology
             /\ model = last.before
       /\ (~last.listRaises /\ last.listed = <<>>) =>
             /\ last.switches = 0 /\ last.invokes = 1
             /\ last.answer = NoModelsApology
             /\ model = last.before
       /\ (~last.listRaises /\ last.listed # <<>>) =>
             /\ last.switches = 1 /\ last.invokes = 2
             /\ "models/" \o model = last.listed[1]
             /\ last.out2.ok => IsStripOf(last.answer, last.out2.text)
             /\ ~last.out2.ok => last.answer = UnavailableApology

C3_Witness ==
    /\ last.op = "generate"
    /\ FirstNotFound
    /\ last.switches = 1
    /\ last.invokes = 2
    /\ last.out2.ok
    /\ last.answer = <<"Einstein">>
    /\ model # last.before

\* C8: on the path that calls the generator the sources mirror the matches:
\* as many, element i with the text, source and score of match i, in the
\* order in which the index returned them.
C8_SourcesMirrorMatches ==
    (last.op = "respond" /\ last.genCalls = 1) =>
       /\ Len(last.sources) = Len(last.matches)
       /\ Len(last.sources) = Len(Wire)
       /\ \A i \in 1..Len(last.sources) :
             /\ last.sources[i].text = last.matches[i].metadata.text
             /\ last.sources[i].source = last.matches[i].metadata.source
             /\ last.sources[i].score = last.matches[i].score
             /\ last.sources[i].score = (IF Wire[i].score = <<>> THEN 0 ELSE Wire[i].score[1])
             /\ (Wire[i].metadata # <<>> /\ Wire[i].metadata[1].fmt = "dict") =>
                   /\ last.sources[i].text = Wire[i].metadata[1].d.text[1]
                   /\ last.sources[i].source = Wire[i].metadata[1].d.source[1]

C8_Witness ==
    /\ last.op = "respond"
    /\ last.genCalls = 1
    /\ PlainResponse
    /\ Len(last.sources) = 2
    /\ last.sources[1].text # last.sources[2].text
    /\ last.sources[1].score > last.sources[2].score

\* ----- helpers over the record of the last construction
\* the positions of the provider's list that hold a model able to generate
\* content
CapableAt == {i \in 1..Len(catalog) : "generateContent" \in catalog[i].methods}

PreferredListed == \E i \in CapableAt : catalog[i].name = "models/" \o preferred_model_name

\* C11: construction fails, leaving no pipeline, exactly when the provider
\* call fails or the provider lists no model able to generate content;
\* otherwise the active model is the preferred one when it is among the
\* capable models listed, at whatever position, and the first capable model
\* listed when it is not.
C11_InitialModel ==
    last.op = "construct" =>
       /\ last.raised <=> (last.listRaises \/ CapableAt = {})
       /\ last.raised => model = NoModel
       /\ ~last.raised =>
             IF PreferredListed
             THEN model = preferred_model_name
             ELSE \E i \in CapableAt :
                     /\ \A j \in CapableAt : i <= j
                     /\ "models/" \o model = catalog[i].name

\* constructed where the preferred model is listed after another capable one
C11_Witness ==
    /\ last.op = "construct"
    /\ ~last.raised
    /\ ~last.listRaises
    /\ PreferredListed
    /\ "generateContent" \in catalog[1].methods
    /\ catalog[1].name # "models/" \o preferred_model_name
    /\ model = preferred_model_name

\* ----- helpers over the record of the last call_gemini_generate call
FirstOther == ~last.out1.ok /\ ~not_found_class(last.out1.msg)

====
